---- MODULE Spec2Model ----
(***************************************************************************)
(* Model of update_results.py: the status-sentence locator, the two date   *)
(* parsers, the CSV ledger writer and the orchestrator (main).             *)
(*                                                                         *)
(* Text is modelled as a sequence of symbols.  A symbol is a record        *)
(*   k = "word": a run of letters, w its lower-case spelling, c its case   *)
(*               style ("l" lower, "T" Title, "U" UPPER);                  *)
(*   k = "num" : a run of digits, n its value, c its number of digits;     *)
(*   k = "lit" : any other character (or a fixed literal), w its text.     *)
(* str.lower() maps a word to the same spelling with style "l"; a          *)
(* case-sensitive regex literal matches one style only, a case-insensitive *)
(* one matches every style.                                                *)
(***************************************************************************)
EXTENDS Integers, Sequences, FiniteSets, TLC

(***************************************************************************)
(* Symbols                                                                 *)
(***************************************************************************)
W(w, c) == [c |-> c, k |-> "word", n |-> 0, w |-> w]

N(n, digits) == [c |-> digits, k |-> "num", n |-> n, w |-> ""]

L(ch) == [c |-> "", k |-> "lit", n |-> 0, w |-> ch]

SP == L(" ")

EOT == [c |-> "", k |-> "eot", n |-> 0, w |-> ""]

At(s, i) == IF i \in 1..Len(s) THEN s[i] ELSE EOT

lower(t) == IF t.k = "word" THEN W(t.w, "l") ELSE t

IsWordCS(t, w, c) == t.k = "word" /\ t.w = w /\ t.c = c

Fold(w) == IF w = "m[U+0131]tte" THEN "mitte" ELSE w

IsWordCI(t, w) == t.k = "word" /\ Fold(t.w) = w

IsNum(t, digits) == t.k = "num" /\ t.c = digits

RECURSIVE SkipWs(_, _)
SkipWs(s, i) == IF At(s, i) = SP THEN SkipWs(s, i + 1) ELSE i

First(I) == IF I = {} THEN 0 ELSE CHOOSE i \in I : \A j \in I : i <= j

Final(I) == IF I = {} THEN 0 ELSE CHOOSE i \in I : \A j \in I : i >= j

(***************************************************************************)
(* Lookup tables                                                           *)
(***************************************************************************)
GERMAN_MONTHS ==
  ("januar" :> 1) @@ ("februar" :> 2) @@ ("märz" :> 3) @@ ("maerz" :> 3) @@
  ("april" :> 4) @@ ("mai" :> 5) @@ ("juni" :> 6) @@ ("juli" :> 7) @@
  ("august" :> 8) @@ ("september" :> 9) @@ ("oktober" :> 10) @@
  ("november" :> 11) @@ ("dezember" :> 12)

Last == 0

POSITION_DAY == ("anfang" :> 5) @@ ("mitte" :> 15) @@ ("ende" :> Last)

(***************************************************************************)
(* Calendar: datetime.date and calendar.monthrange                         *)
(***************************************************************************)
isleap(year) == year % 4 = 0 /\ (year % 100 # 0 \/ year % 400 = 0)

mdays == <<31, 28, 31, 30, 31, 30, 31, 31, 30, 31, 30, 31>>

\* Mutant: the length of February ignores leap years.
monthrange_NoLeap(year, month) == mdays[month]

monthrange(year, month) == mdays[month] + (IF month = 2 /\ isleap(year) THEN 1 ELSE 0)

NoDate == [d |-> 0, m |-> 0, y |-> 0]

Ok(date, via) == [date |-> date, err |-> "", tag |-> "ok", via |-> via]

Err(e, via) == [date |-> NoDate, err |-> e, tag |-> "err", via |-> via]

date(year, month, day, via) ==
  IF /\ year \in 1..9999
     /\ month \in 1..12
     /\ day >= 1
     /\ day <= monthrange(year, month)
  THEN Ok([d |-> day, m |-> month, y |-> year], via)
  ELSE Err("ValueError: date out of range", via)

isoformat(d) == <<N(d.y, "4"), L("-"), N(d.m, "2"), L("-"), N(d.d, "2")>>

(***************************************************************************)
(* HTML text extraction and the sentence locator                           *)
(***************************************************************************)
lstrip(s) ==
  SubSeq(s, First({i \in 1..(Len(s) + 1) : At(s, i) # SP}), Len(s))

rstrip(s) ==
  SubSeq(s, 1, Final({i \in 0..Len(s) : At(s, i) # SP}))

strip(s) == rstrip(lstrip(s))

RECURSIVE join(_)
join(parts) ==
  IF parts = <<>> THEN <<>>
  ELSE IF Len(parts) = 1 THEN parts[1]
  ELSE parts[1] \o <<SP>> \o join(Tail(parts))

RECURSIVE handle_data(_)
handle_data(chunks) ==
  IF chunks = <<>> THEN <<>>
  ELSE IF strip(Head(chunks)) # <<>>
       THEN <<strip(Head(chunks))>> \o handle_data(Tail(chunks))
       ELSE handle_data(Tail(chunks))

get_text(chunks) == join(handle_data(chunks))

collapse(s) ==
  LET kept == SelectSeq([i \in 1..Len(s) |-> i],
                        LAMBDA i : ~(s[i] = SP /\ At(s, i + 1) = SP))
  IN  [n \in 1..Len(kept) |-> s[kept[n]]]

normalize(s) == collapse(strip(s))

PHRASE == "derzeit werden anträge mit eingangsdatum"

IsParen(t) == t = L("(") \/ t = L(")")

NextParen(s, i) == First({k \in i..Len(s) : IsParen(s[k])})

DateAt(s, j) ==
  /\ IsNum(At(s, j), "2")
  /\ At(s, j + 1) = L(".")
  /\ IsNum(At(s, j + 2), "2")
  /\ At(s, j + 3) = L(".")
  /\ IsNum(At(s, j + 4), "4")

StatusEnd(s, i) ==
  LET p == NextParen(s, i + 1)
      j == SkipWs(s, p + 3)
  IN  IF /\ IsWordCI(At(s, i), PHRASE)
         /\ p # 0
         /\ At(s, p) = L("(")
         /\ IsWordCI(At(s, p + 1), "stand")
         /\ At(s, p + 2) = L(":")
         /\ DateAt(s, j)
         /\ At(s, j + 5) = L(")")
      THEN IF At(s, j + 6) = L(".") THEN j + 6 ELSE j + 5
      ELSE 0

StatusAt(s, i) == StatusEnd(s, i) # 0

NoSentence == <<>>

extract_status_sentence(html) ==
  LET text == normalize(get_text(html))
      match == First({i \in 1..Len(text) : StatusAt(text, i)})
  IN  IF match = 0
      THEN [err |-> "Status sentence not found in HTML content.", sentence |-> NoSentence, tag |-> "err"]
      ELSE [err |-> "", sentence |-> strip(SubSeq(text, match, StatusEnd(text, match))), tag |-> "ok"]

(***************************************************************************)
(* Date parsers                                                            *)
(***************************************************************************)
StandAt(s, i) ==
  /\ IsWordCS(At(s, i), "stand", "T")
  /\ At(s, i + 1) = L(":")
  /\ DateAt(s, SkipWs(s, i + 2))

parse_stand_date(sentence) ==
  LET match == First({i \in 1..Len(sentence) : StandAt(sentence, i)})
      j == SkipWs(sentence, match + 2)
  IN  IF match = 0
      THEN Err("Stand date not found in sentence.", "stand")
      ELSE date(At(sentence, j + 4).n, At(sentence, j + 2).n, At(sentence, j).n, "stand")

DirectAt(s, i) ==
  /\ IsWordCS(At(s, i), "bis", "l")
  /\ DateAt(s, SkipWs(s, i + 1))

RangeWithPos(s, i) ==
  LET j == SkipWs(s, i + 1)
      j2 == SkipWs(s, j + 1)
      j3 == SkipWs(s, j2 + 1)
  IN  /\ At(s, j).k = "word"
      /\ Fold(At(s, j).w) \in {"anfang", "mitte", "ende"}
      /\ At(s, j2).k = "word"
      /\ IsNum(At(s, j3), "4")

RangeNoPos(s, i) ==
  LET j == SkipWs(s, i + 1)
      j3 == SkipWs(s, j + 1)
  IN  /\ At(s, j).k = "word"
      /\ IsNum(At(s, j3), "4")

RangeAt(s, i) ==
  /\ IsWordCI(At(s, i), "bis")
  /\ (RangeWithPos(s, i) \/ RangeNoPos(s, i))

NoGroup == EOT

RangeGroups(s, i) ==
  LET j == SkipWs(s, i + 1)
      j2 == SkipWs(s, j + 1)
      j3 == SkipWs(s, j2 + 1)
  IN  IF RangeWithPos(s, i)
      THEN [month_raw |-> At(s, j2), position_raw |-> At(s, j), year_raw |-> At(s, j3)]
      ELSE [month_raw |-> At(s, j), position_raw |-> NoGroup, year_raw |-> At(s, j2)]

FuzzyDate(g) ==
  LET month_key == lower(g.month_raw).w
      month == GERMAN_MONTHS[month_key]
      position == lower(g.position_raw).w
      day_reference == POSITION_DAY[position]
      year == g.year_raw.n
  IN  IF month_key \notin DOMAIN GERMAN_MONTHS
      THEN Err("Unknown month name", "fuzzy")
      ELSE IF g.position_raw # NoGroup
      THEN IF position \notin DOMAIN POSITION_DAY
           THEN Err("Unsupported position descriptor", "fuzzy")
           ELSE IF day_reference = Last
           THEN date(year, month, monthrange(year, month), "fuzzy")
           ELSE date(year, month, day_reference, "fuzzy")
      ELSE date(year, month, 1, "fuzzy")

\* Mutant: the fuzzy strategy is tried before the explicit one.
parse_target_date_FuzzyFirst(sentence) ==
  LET direct_match == First({i \in 1..Len(sentence) : DirectAt(sentence, i)})
      j == SkipWs(sentence, direct_match + 1)
      range_match == First({i \in 1..Len(sentence) : RangeAt(sentence, i)})
  IN  IF range_match # 0
      THEN FuzzyDate(RangeGroups(sentence, range_match))
      ELSE IF direct_match = 0
      THEN Err("Target date not found in sentence.", "none")
      ELSE date(At(sentence, j + 4).n, At(sentence, j + 2).n, At(sentence, j).n, "explicit")

parse_target_date(sentence) ==
  LET direct_match == First({i \in 1..Len(sentence) : DirectAt(sentence, i)})
      j == SkipWs(sentence, direct_match + 1)
      range_match == First({i \in 1..Len(sentence) : RangeAt(sentence, i)})
  IN  IF direct_match # 0
      THEN date(At(sentence, j + 4).n, At(sentence, j + 2).n, At(sentence, j).n, "explicit")
      ELSE IF range_match = 0
      THEN Err("Target date not found in sentence.", "none")
      ELSE FuzzyDate(RangeGroups(sentence, range_match))

(***************************************************************************)
(* CSV dialect (csv.writer / csv.reader, excel dialect, QUOTE_MINIMAL).    *)
(* A row is a sequence of fields, a field a sequence of symbols, a line    *)
(* the text csv.writer produces for a row (its "\r\n" terminator left      *)
(* implicit); the file is a sequence of lines.                             *)
(***************************************************************************)
Q == L("\"")

COMMA == L(",")

NeedsQuote(field) ==
  \E i \in 1..Len(field) : field[i] \in {COMMA, Q, L("\r"), L("\n")}

QCount(field, k) == Cardinality({x \in 1..k : field[x] = Q})

DoubleQuotes(field) ==
  [n \in 1..(Len(field) + QCount(field, Len(field))) |->
     field[CHOOSE k \in 1..Len(field) :
             k + QCount(field, k - 1) <= n /\ n <= k + QCount(field, k)]]

\* Mutant: fields are written without quoting.
EncodeField_Unquoted(field) == field

EncodeField(field) ==
  IF NeedsQuote(field) THEN <<Q>> \o DoubleQuotes(field) \o <<Q>> ELSE field

RECURSIVE JoinFields(_)
JoinFields(row) ==
  IF row = <<>> THEN <<>>
  ELSE IF Len(row) = 1 THEN EncodeField(row[1])
  ELSE EncodeField(row[1]) \o <<COMMA>> \o JoinFields(Tail(row))

writerow(row) == IF row = <<(<<>>)>> THEN <<Q, Q>> ELSE JoinFields(row)

NextComma(line, i) == First({k \in i..Len(line) : line[k] = COMMA})

ClosingQuote(line, i) ==
  First({j \in (i + 1)..Len(line) :
           /\ line[j] = Q
           /\ At(line, j + 1) # Q
           /\ Cardinality({k \in (i + 1)..(j - 1) : line[k] = Q}) % 2 = 0})

Unescape(line, lo, hi) ==
  LET kept == SelectSeq([k \in 1..(hi - lo + 1) |-> lo + k - 1],
                        LAMBDA k : \/ line[k] # Q
                                   \/ Cardinality({x \in lo..k : line[x] = Q}) % 2 = 0)
  IN  [n \in 1..Len(kept) |-> line[kept[n]]]

FieldAt(line, i) ==
  LET quoted == At(line, i) = Q
      close == ClosingQuote(line, i)
      from == IF ~quoted THEN i
              ELSE IF close = 0 THEN Len(line) + 1 ELSE close + 1
      comma == NextComma(line, from)
      stop == IF comma = 0 THEN Len(line) + 1 ELSE comma
      head == IF ~quoted THEN <<>>
              ELSE Unescape(line, i + 1, IF close = 0 THEN Len(line) ELSE close - 1)
  IN  [field |-> head \o SubSeq(line, from, stop - 1),
       next |-> IF comma = 0 THEN 0 ELSE comma + 1]

RECURSIVE ReadFields(_, _)
ReadFields(line, i) ==
  IF i = 0 THEN <<>>
  ELSE <<FieldAt(line, i).field>> \o ReadFields(line, FieldAt(line, i).next)

reader(line) ==
  IF line = <<>> THEN <<>> ELSE ReadFields(line, 1)

(***************************************************************************)
(* Ledger writer                                                           *)
(***************************************************************************)
HEADER ==
  << <<L("retrieved_at")>>, <<L("stand_date")>>,
     <<L("status_text")>>, <<L("target_date")>> >>

None == [row |-> <<>>, some |-> FALSE]

Some(row) == [row |-> row, some |-> TRUE]

NoFile == [exists |-> FALSE, lines |-> <<>>]

EmptyFile == [exists |-> TRUE, lines |-> <<>>]

st_size(file) == Len(file.lines)

IsDataRow(row) == row # <<>> /\ row[1] # <<L("retrieved_at")>>

read_last_row(file) ==
  LET last == Final({i \in 1..Len(file.lines) : IsDataRow(reader(file.lines[i]))})
  IN  IF ~file.exists \/ last = 0 THEN None ELSE Some(reader(file.lines[last]))

\* Mutant: the comparison skips the first column.
RowUnchanged_IgnoringRetrievedAt(last_row, row) ==
  last_row.some /\ Tail(last_row.row) = Tail(row)

\* Mutant: the comparison is lost and every row counts as changed.
RowUnchanged_Never(last_row, row) == FALSE

RowUnchanged(last_row, row) == last_row.some /\ last_row.row = row

\* Mutant: the header is written only when the file did not exist.
NeedsHeader_OnlyIfMissing(file_exists, file) == ~file_exists

NeedsHeader(file_exists, file) == ~file_exists \/ st_size(file) = 0

\* Mutant: the file is opened for writing, not for appending.
append_row_if_changed_Truncating(file, row) ==
  IF RowUnchanged(read_last_row(file), row)
  THEN [file |-> file, wrote |-> FALSE]
  ELSE [file |-> [exists |-> TRUE, lines |-> <<writerow(HEADER), writerow(row)>>],
        wrote |-> TRUE]

append_row_if_changed(file, row) ==
  LET last_row == read_last_row(file)
      file_exists == file.exists
      opened == [exists |-> TRUE, lines |-> file.lines]
      header == IF NeedsHeader(file_exists, opened) THEN <<writerow(HEADER)>> ELSE <<>>
  IN  IF RowUnchanged(last_row, row)
      THEN [file |-> file, wrote |-> FALSE]
      ELSE [file |-> [exists |-> TRUE,
                      lines |-> opened.lines \o header \o <<writerow(row)>>],
            wrote |-> TRUE]

(***************************************************************************)
(* Orchestrator                                                            *)
(***************************************************************************)
fetch_html(page) ==
  IF page.reachable
  THEN [err |-> "", html |-> page.html, tag |-> "ok"]
  ELSE [err |-> "URLError", html |-> <<>>, tag |-> "err"]

Failed(stage, err) ==
  [err |-> err, sentence |-> NoSentence, stage |-> stage, stand_date |-> NoDate, tag |-> "err", target_date |-> NoDate]

\* Mutant: a failure of parse_target_date is not propagated.
collect_status_SkipTargetCheck(page) ==
  LET html == fetch_html(page)
      sentence == extract_status_sentence(html.html)
      stand_date == parse_stand_date(sentence.sentence)
      target_date == parse_target_date(sentence.sentence)
  IN  IF html.tag = "err" THEN Failed("fetch", html.err)
      ELSE IF sentence.tag = "err" THEN Failed("extract", sentence.err)
      ELSE IF stand_date.tag = "err" THEN Failed("stand", stand_date.err)
      ELSE [err |-> "", sentence |-> sentence.sentence, stage |-> "done",
            stand_date |-> stand_date.date, tag |-> "ok",
            target_date |-> target_date.date]

collect_status(page) ==
  LET html == fetch_html(page)
      sentence == extract_status_sentence(html.html)
      stand_date == parse_stand_date(sentence.sentence)
      target_date == parse_target_date(sentence.sentence)
  IN  IF html.tag = "err" THEN Failed("fetch", html.err)
      ELSE IF sentence.tag = "err" THEN Failed("extract", sentence.err)
      ELSE IF stand_date.tag = "err" THEN Failed("stand", stand_date.err)
      ELSE IF target_date.tag = "err" THEN Failed("target", target_date.err)
      ELSE [err |-> "", sentence |-> sentence.sentence, stage |-> "done", stand_date |-> stand_date.date, tag |-> "ok", target_date |-> target_date.date]

NoRow == <<>>

main(file, page, today) ==
  LET cs == collect_status(page)
      row == <<isoformat(today), isoformat(cs.stand_date), cs.sentence,
               isoformat(cs.target_date)>>
      res == append_row_if_changed(file, row)
  IN  IF cs.tag = "err"
      THEN [called |-> FALSE, file |-> file, row |-> NoRow, status |-> 1, wrote |-> FALSE]
      ELSE [called |-> TRUE, file |-> res.file, row |-> row, status |-> 0, wrote |-> res.wrote]

(***************************************************************************)
(* Inputs                                                                  *)
(***************************************************************************)
MaxLines == 4

Styles == {"l", "T", "U"}

BisStyles == {"l", "U"}

Years == {1900, 2000, 2023, 2024}

Quals == {W(q, c) : q \in {"anfang", "mitte", "ende"}, c \in Styles}

Months == {W(m, c) : m \in DOMAIN GERMAN_MONTHS, c \in Styles}

BadQual == W("beginn", "T")

FoldQual == W("m[U+0131]tte", "T")

BadMonth == W("floreal", "T")

D(day, month, year) == [d |-> day, m |-> month, y |-> year]

ExplicitDates ==
  {D(15, 5, 2024), D(29, 2, 2024), D(29, 2, 2023), D(31, 4, 2023), D(1, 13, 2024)}

DateSyms(dd) == <<N(dd.d, "2"), L("."), N(dd.m, "2"), L("."), N(dd.y, "4")>>

StandMarker(c, dd) ==
  <<L("("), W("stand", c), L(":"), SP>> \o DateSyms(dd) \o <<L(")"), L(".")>>

Sentence(p, clause, filler, marker) ==
  <<W(PHRASE, p), SP>> \o clause \o <<SP>> \o filler \o <<SP>> \o marker

FuzzyClause(b, q, m, y) ==
  <<W("bis", b), SP>> \o (IF q = NoGroup THEN <<>> ELSE <<q, SP>>) \o <<m, SP, N(y, "4")>>

ExplicitClause(dd) == <<W("bis", "l"), SP>> \o DateSyms(dd)

NoClause == <<W("ohne", "l"), SP, W("angabe", "T")>>

Bearbeitet == <<W("bearbeitet", "l")>>

In(kind, b, q, m, y, e, order) ==
  [b |-> b, e |-> e, kind |-> kind, m |-> m, order |-> order, q |-> q, y |-> y]

NoIn == In("init", "l", NoGroup, NoGroup, 0, NoDate, "")

FuzzyInputs ==
  {In("fuzzy", b, q, m, y, NoDate, "") :
     b \in BisStyles, q \in Quals \cup {NoGroup, BadQual, FoldQual},
     m \in Months \cup {BadMonth}, y \in Years}

ExplicitInputs ==
  {In("explicit", "l", NoGroup, NoGroup, 0, e, "") : e \in ExplicitDates}

BothInputs ==
  {In("both", "l", q, m, 2023, e, order) :
     q \in {W("ende", "T"), NoGroup}, m \in {W("april", "T"), BadMonth},
     e \in ExplicitDates, order \in {"explicit_first", "fuzzy_first"}}

NoneInputs == {In("none", "l", NoGroup, NoGroup, 0, NoDate, "")}

TargetInputs == FuzzyInputs \cup ExplicitInputs \cup BothInputs \cup NoneInputs

ClauseOf(in) ==
  IF in.kind = "fuzzy" THEN FuzzyClause(in.b, in.q, in.m, in.y)
  ELSE IF in.kind = "explicit" THEN ExplicitClause(in.e)
  ELSE IF in.kind = "both" THEN
    IF in.order = "explicit_first"
    THEN ExplicitClause(in.e) \o <<SP, W("bzw", "l"), SP>> \o FuzzyClause(in.b, in.q, in.m, in.y)
    ELSE FuzzyClause(in.b, in.q, in.m, in.y) \o <<SP, W("bzw", "l"), SP>> \o ExplicitClause(in.e)
  ELSE NoClause

SentenceOf(in) ==
  Sentence("T", ClauseOf(in), Bearbeitet, StandMarker("T", D(28, 8, 2025)))

Html(s) ==
  << <<W("einbürgerung", "T")>>, <<SP, SP>>, <<SP, s[1], SP>>,
     <<s[3], SP, SP>> \o SubSeq(s, 5, Len(s)) \o <<SP>> >>

LocatorTexts ==
  {Sentence(p, FuzzyClause("l", W("ende", "T"), W("april", "T"), 2023), Bearbeitet,
            StandMarker(c, dd)) :
     p \in Styles, c \in Styles, dd \in {D(28, 8, 2025), D(31, 2, 2025)}}
  \cup {<<W("wartung", "T"), SP, W("heute", "l")>> \o StandMarker("T", D(28, 8, 2025))}
  \cup {Sentence("T", NoClause, <<L("("), W("neu", "l"), L(")")>>,
                 StandMarker("T", D(28, 8, 2025)))}

Days == {D(29, 8, 2025), D(30, 8, 2025)}

Page(reachable, s) == [html |-> Html(s), reachable |-> reachable]

NoPage == [html |-> <<>>, reachable |-> FALSE]

Quoted == <<COMMA, SP, Q, W("vorläufig", "l"), Q, SP, W("bearbeitet", "l")>>

GoodPages ==
  { Page(TRUE, Sentence("T", FuzzyClause("l", W("ende", "T"), W("april", "T"), 2023),
                        Bearbeitet, StandMarker("T", D(28, 8, 2025)))),
    Page(TRUE, Sentence("T", ExplicitClause(D(15, 5, 2024)),
                        Quoted, StandMarker("T", D(4, 9, 2025)))) }

BadTargetPage ==
  Page(TRUE, Sentence("T", FuzzyClause("l", NoGroup, BadMonth, 2023),
                      Bearbeitet, StandMarker("T", D(28, 8, 2025))))

BadPages ==
  { Page(FALSE, Sentence("T", FuzzyClause("l", W("ende", "T"), W("april", "T"), 2023),
                         Bearbeitet, StandMarker("T", D(28, 8, 2025)))),
    Page(TRUE, <<W("wartung", "T"), SP, W("heute", "l"), SP, W("geschlossen", "l")>>),
    Page(TRUE, Sentence("T", FuzzyClause("l", W("ende", "T"), W("april", "T"), 2023),
                        Bearbeitet, StandMarker("T", D(31, 2, 2025)))),
    BadTargetPage,
    Page(TRUE, Sentence("T", NoClause, Bearbeitet, StandMarker("T", D(28, 8, 2025)))) }

Pages == GoodPages \cup BadPages

Rows == {main(NoFile, p, t).row : p \in GoodPages, t \in Days}

Procs == {1, 2}

(***************************************************************************)
(* State                                                                   *)
(***************************************************************************)
VARIABLES
  store,      \* the CSV file: does it exist, and its lines
  op,         \* the operation the last step ran
  called,     \* did the last step invoke append_row_if_changed
  argRow,     \* the row it was invoked with
  wrote,      \* its return value
  status,     \* exit status of the last run of main
  argPage,    \* the page the last run of main fetched
  pIn,        \* parser harness: the clause the sentence was built from
  pSentence,  \* parser harness: the sentence given to parse_target_date
  pTarget,    \* parser harness: its result
  pHtml,      \* parser harness: the document given to the locator
  pLocated,   \* parser harness: the locator's result
  pStand,     \* parser harness: parse_stand_date on the located sentence
  pc,         \* concurrent writers: position of each invocation
  rrow,       \* concurrent writers: the row argument
  rexists,    \* concurrent writers: the local file_exists
  rbuf,       \* concurrent writers: lines buffered in the open handle
  rret,       \* concurrent writers: return value of the last finished call
  overlapped  \* concurrent writers: has any invocation started while another was running

ledgerVars == <<op, called, argRow, wrote, status, argPage>>

parseVars == <<pIn, pSentence, pTarget, pHtml, pLocated, pStand>>

raceVars == <<pc, rrow, rexists, rbuf, rret, overlapped>>

vars == <<store, ledgerVars, parseVars, raceVars>>

NoResult == [date |-> NoDate, err |-> "", tag |-> "none", via |-> ""]

NoLocated == [err |-> "", sentence |-> NoSentence, tag |-> "none"]

InitLedger ==
  /\ op = "init"
  /\ called = FALSE
  /\ argRow = NoRow
  /\ wrote = FALSE
  /\ status = -1
  /\ argPage = NoPage

InitParse ==
  /\ pIn = NoIn
  /\ pSentence = NoSentence
  /\ pTarget = NoResult
  /\ pHtml = <<>>
  /\ pLocated = NoLocated
  /\ pStand = NoResult

InitRace ==
  /\ pc = [p \in Procs |-> "idle"]
  /\ rrow = [p \in Procs |-> NoRow]
  /\ rexists = [p \in Procs |-> FALSE]
  /\ rbuf = [p \in Procs |-> <<>>]
  /\ rret = [p \in Procs |-> "-"]
  /\ overlapped = FALSE

Init ==
  /\ store \in {NoFile, EmptyFile}
  /\ InitLedger
  /\ InitParse
  /\ InitRace

(***************************************************************************)
(* Single writer: direct calls of append_row_if_changed and runs of main   *)
(***************************************************************************)
AppendRow(row) ==
  \E res \in {append_row_if_changed(store, row)} :
  /\ Len(store.lines) < MaxLines
  /\ store' = res.file
  /\ op' = "append"
  /\ called' = TRUE
  /\ argRow' = row
  /\ wrote' = res.wrote
  /\ status' = -1
  /\ argPage' = NoPage
  /\ UNCHANGED <<parseVars, raceVars>>

Main(page, today) ==
  \E res \in {main(store, page, today)} :
  /\ Len(store.lines) < MaxLines
  /\ store' = res.file
  /\ op' = "main"
  /\ called' = res.called
  /\ argRow' = res.row
  /\ wrote' = res.wrote
  /\ status' = res.status
  /\ argPage' = page
  /\ UNCHANGED <<parseVars, raceVars>>

Next ==
  \/ \E row \in Rows : AppendRow(row)
  \/ \E page \in Pages, today \in Days : Main(page, today)

Spec == Init /\ [][Next]_vars

(***************************************************************************)
(* Parser harness: the pure functions applied to enumerated inputs         *)
(***************************************************************************)
Fresh == pIn = NoIn /\ pLocated = NoLocated

ParseTarget(in) ==
  /\ Fresh
  /\ pIn' = in
  /\ pSentence' = SentenceOf(in)
  /\ pTarget' = parse_target_date(SentenceOf(in))
  /\ UNCHANGED <<pHtml, pLocated, pStand>>
  /\ UNCHANGED <<store, ledgerVars, raceVars>>

Locate(text) ==
  LET located == extract_status_sentence(Html(text)) IN
  /\ Fresh
  /\ pHtml' = Html(text)
  /\ pLocated' = located
  /\ pStand' = IF located.tag = "ok" THEN parse_stand_date(located.sentence) ELSE NoResult
  /\ UNCHANGED <<pIn, pSentence, pTarget>>
  /\ UNCHANGED <<store, ledgerVars, raceVars>>

NextParse ==
  \/ \E in \in TargetInputs : ParseTarget(in)
  \/ \E text \in LocatorTexts : Locate(text)

InitParseOnly ==
  /\ store = NoFile
  /\ InitLedger
  /\ InitParse
  /\ InitRace

SpecParse == InitParseOnly /\ [][NextParse]_vars

(***************************************************************************)
(* Two concurrent invocations of append_row_if_changed on one file, each   *)
(* split at its file-system calls                                          *)
(***************************************************************************)
RaceRows == {main(NoFile, p, t).row : p \in GoodPages, t \in {D(29, 8, 2025)}}

Other(p) == CHOOSE o \in Procs : o # p

ReadLast(p, row) ==
  /\ pc[p] = "idle"
  /\ Len(store.lines) < MaxLines
  /\ rrow' = [rrow EXCEPT ![p] = row]
  /\ overlapped' = (overlapped \/ pc[Other(p)] # "idle")
  /\ IF RowUnchanged(read_last_row(store), row)
     THEN /\ rret' = [rret EXCEPT ![p] = "False"]
          /\ pc' = pc
     ELSE /\ rret' = [rret EXCEPT ![p] = "-"]
          /\ pc' = [pc EXCEPT ![p] = "exists"]
  /\ UNCHANGED <<store, rexists, rbuf>>
  /\ UNCHANGED <<ledgerVars, parseVars>>

Exists(p) ==
  /\ pc[p] = "exists"
  /\ rexists' = [rexists EXCEPT ![p] = store.exists]
  /\ pc' = [pc EXCEPT ![p] = "open"]
  /\ UNCHANGED <<store, rrow, rbuf, rret, overlapped>>
  /\ UNCHANGED <<ledgerVars, parseVars>>

Open(p) ==
  /\ pc[p] = "open"
  /\ store' = [exists |-> TRUE, lines |-> store.lines]
  /\ pc' = [pc EXCEPT ![p] = "write"]
  /\ UNCHANGED <<rrow, rexists, rbuf, rret, overlapped>>
  /\ UNCHANGED <<ledgerVars, parseVars>>

WriteRows(p) ==
  /\ pc[p] = "write"
  /\ rbuf' = [rbuf EXCEPT ![p] =
                (IF NeedsHeader(rexists[p], store) THEN <<writerow(HEADER)>> ELSE <<>>)
                \o <<writerow(rrow[p])>>]
  /\ pc' = [pc EXCEPT ![p] = "close"]
  /\ UNCHANGED <<store, rrow, rexists, rret, overlapped>>
  /\ UNCHANGED <<ledgerVars, parseVars>>

Close(p) ==
  /\ pc[p] = "close"
  /\ store' = [exists |-> TRUE, lines |-> store.lines \o rbuf[p]]
  /\ rbuf' = [rbuf EXCEPT ![p] = <<>>]
  /\ rret' = [rret EXCEPT ![p] = "True"]
  /\ pc' = [pc EXCEPT ![p] = "idle"]
  /\ UNCHANGED <<rrow, rexists, overlapped>>
  /\ UNCHANGED <<ledgerVars, parseVars>>

NextRace ==
  \/ \E p \in Procs, row \in RaceRows : ReadLast(p, row)
  \/ \E p \in Procs : Exists(p)
  \/ \E p \in Procs : Open(p)
  \/ \E p \in Procs : WriteRows(p)
  \/ \E p \in Procs : Close(p)

SpecRace == Init /\ [][NextRace]_vars

(***************************************************************************)
(* Properties                                                              *)
(***************************************************************************)
DiffersOnlyInRetrievedAt(r, l) ==
  /\ Len(r) = 4 /\ Len(l) = 4
  /\ r[1] # l[1] /\ r[2] = l[2] /\ r[3] = l[3] /\ r[4] = l[4]

IsPrefix(a, b) == Len(a) <= Len(b) /\ SubSeq(b, 1, Len(a)) = a

Decoded(file) == [i \in 1..Len(file.lines) |-> reader(file.lines[i])]

DataRows(file) == SelectSeq(Decoded(file), IsDataRow)

HeaderWritten ==
  /\ Len(store'.lines) = Len(store.lines) + 2
  /\ store'.lines[Len(store.lines) + 1] = writerow(HEADER)

C2_Idempotent ==
  [][/\ (called /\ called' /\ argRow' = argRow) => (~wrote' /\ store' = store)
     /\ (called' /\ ~store.exists) =>
          /\ wrote'
          /\ store'.exists
          /\ Decoded(store') = <<HEADER, argRow'>>]_vars

C2_Witness ==
  /\ called /\ ~wrote
  /\ NeedsQuote(argRow[3])
  /\ Decoded(store) = <<HEADER, argRow>>

\* C3: from a nonexistent or empty store, a store that has been written has
\* the header as its first line, only data rows after it, and a call that
\* writes writes the header exactly when the store was nonexistent or empty.
C3_HeaderDiscipline ==
  [][/\ store'.lines # <<>> =>
          /\ Decoded(store')[1] = HEADER
          /\ \A i \in 2..Len(store'.lines) :
               IsDataRow(Decoded(store')[i]) /\ Len(Decoded(store')[i]) = 4
     /\ (called' /\ wrote') =>
          (HeaderWritten <=> (~store.exists \/ store.lines = <<>>))]_vars

C3_Witness ==
  /\ called /\ wrote
  /\ Len(store.lines) >= 3
  /\ Decoded(store)[1] = HEADER

StageFailure(page) ==
  \/ fetch_html(page).tag = "err"
  \/ extract_status_sentence(page.html).tag = "err"
  \/ parse_stand_date(extract_status_sentence(page.html).sentence).tag = "err"
  \/ parse_target_date(extract_status_sentence(page.html).sentence).tag = "err"

\* C4: a run of main in which fetch, extraction or either date parser fails
\* returns 1, does not invoke append_row_if_changed and leaves the store as
\* it was; a run in which all succeed invokes it and returns 0.
C4_NoWriteOnFailure ==
  [][op' = "main" =>
       IF StageFailure(argPage')
       THEN status' = 1 /\ ~called' /\ ~wrote' /\ store' = store
       ELSE status' = 0 /\ called']_vars

C4_Witness ==
  /\ op = "main" /\ status = 1
  /\ argPage = BadTargetPage
  /\ Len(store.lines) >= 2

\* C5: every step leaves the previous lines of the store as a prefix of the
\* new ones; a call that returns true adds exactly the given row as the last
\* data row, a call that returns false changes nothing.
C5_AppendOnly ==
  [][/\ IsPrefix(store.lines, store'.lines)
     /\ store.exists => store'.exists
     /\ (called' /\ wrote') =>
          /\ DataRows(store') = Append(DataRows(store), argRow')
          /\ store'.lines[Len(store'.lines)] = writerow(argRow')
     /\ (called' /\ ~wrote') => store' = store]_vars

C5_Witness ==
  /\ called /\ wrote
  /\ Len(DataRows(store)) >= 3

LeapYear(y) == (y % 4 = 0 /\ y % 100 # 0) \/ y % 400 = 0

LastCalendarDay(m, y) ==
  IF m = 2 THEN (IF LeapYear(y) THEN 29 ELSE 28)
  ELSE IF m \in {4, 6, 9, 11} THEN 30 ELSE 31

ConventionDay(q, m, y) ==
  IF q = NoGroup THEN 1
  ELSE IF q.w = "anfang" THEN 5
  ELSE IF q.w = "mitte" THEN 15
  ELSE LastCalendarDay(m, y)

\* C6: on a sentence whose only clause is "bis [qualifier] M Y", with M a
\* month name of the table in any case, Y a four-digit year and the qualifier
\* Anfang, Mitte, Ende (any case) or absent, parse_target_date returns
\* (Y, month(M), d) with d = 5, 15, the last calendar day, or 1.
C6_FuzzyConvention ==
  (pIn.kind = "fuzzy" /\ pIn.m \in Months /\ pIn.q \in Quals \cup {NoGroup}) =>
    pTarget = Ok(D(ConventionDay(pIn.q, GERMAN_MONTHS[pIn.m.w], pIn.y),
                   GERMAN_MONTHS[pIn.m.w], pIn.y), "fuzzy")

C6_Witness ==
  /\ pIn.kind = "fuzzy" /\ pIn.b = "U"
  /\ pIn.q = W("ende", "U") /\ pIn.m = W("februar", "l") /\ pIn.y = 2024
  /\ pTarget = Ok(D(29, 2, 2024), "fuzzy")

ValidWritten(e) == e.m \in 1..12 /\ e.d \in 1..LastCalendarDay(e.m, e.y)

\* C7: on a sentence with an explicit clause "bis DD.MM.YYYY" the result
\* comes from the explicit strategy alone, whether or not a fuzzy clause
\* stands before or after it: the date as written when it is a calendar
\* date, the date constructor's error otherwise.
C7_ExplicitPrecedence ==
  pIn.kind \in {"explicit", "both"} =>
    /\ pTarget.via = "explicit"
    /\ ValidWritten(pIn.e) => pTarget = Ok(pIn.e, "explicit")
    /\ ~ValidWritten(pIn.e) => pTarget.tag = "err"

C7_Witness ==
  /\ pIn.kind = "both" /\ pIn.order = "fuzzy_first"
  /\ pIn.q = W("ende", "T") /\ pIn.m = W("april", "T")
  /\ pTarget = Ok(D(15, 5, 2024), "explicit")

\* C8 as stated: an unknown month word fails with "Unknown month name", a
\* qualifier word other than Anfang/Mitte/Ende fails with "Unsupported
\* position descriptor", and "Target date not found" is raised only when the
\* sentence has no clause at all.
C8_DistinctParseErrors ==
  /\ (pIn.kind = "fuzzy" /\ pIn.m = BadMonth /\ pIn.q \in Quals \cup {NoGroup}) =>
       pTarget.err = "Unknown month name"
  /\ (pIn.kind = "fuzzy" /\ pIn.m \in Months /\ pIn.q \notin Quals \cup {NoGroup}) =>
       pTarget.err = "Unsupported position descriptor"
  /\ pTarget.err = "Target date not found in sentence." => pIn.kind = "none"

\* C9 as stated: whenever the locator returns a sentence, parse_stand_date
\* on that sentence does not fail with "Stand date not found".
C9_LocatorOutputAccepted ==
  pLocated.tag = "ok" => pStand.err # "Stand date not found in sentence."

AdjacentDuplicate(file) ==
  \E i \in 1..(Len(DataRows(file)) - 1) : DataRows(file)[i] = DataRows(file)[i + 1]

\* C10: as long as no invocation has started while another was running, no
\* two adjacent data rows of the store are equal; with two overlapping
\* invocations on the same row both can return true and leave the row twice.
C10_SingleWriterNoDuplicates == ~overlapped => ~AdjacentDuplicate(store)

C10_Witness ==
  /\ overlapped
  /\ \A p \in Procs : pc[p] = "idle" /\ rret[p] = "True"
  /\ rrow[1] = rrow[2]
  /\ Len(store.lines) >= 2
  /\ store.lines[Len(store.lines)] = writerow(rrow[1])
  /\ store.lines[Len(store.lines) - 1] = writerow(rrow[1])

====
